---- MODULE Spec2Model ----
(***************************************************************************)
(* Aria voice agent: WebRTC signaling (backend/core/apis/api.py) and the   *)
(* per-call pipeline factory (backend/core/pipeline.py).                   *)
(*                                                                         *)
(* Spec       : POST /api/offer with the session-ready callback            *)
(*              on_connection, create_pipeline, the background task _run    *)
(*              and the shutdown hook.                                      *)
(* SpecIce    : POST /api/offer interleaved with PATCH /api/offer (trickle  *)
(*              ICE candidates).                                            *)
(* SpecHttp   : SpecIce with requests whose body does not parse or validate.*)
(* SpecFrames : one wired pipeline moving frames stage by stage, with       *)
(*              SecureDeepgramSTTService.process_frame at the second stage  *)
(*              and the greeting queued by on_client_connected.             *)
(*                                                                         *)
(* SmallWebRTCRequestHandler and the stages other than the recognition     *)
(* stage are Pipecat's; their steps are modelled from the design document   *)
(* (sections 2, 3, 4.1, 4.2) and are named Handler* / Stage* below.         *)
(***************************************************************************)
EXTENDS Integers, Sequences, FiniteSets, TLC

\* ------------------------------------------------------------------ bounds
MaxSessions == 2
MaxIceSessions == 1
MaxCands == 3
MaxBatch == 2
MaxFrames == 2
MaxContext == 1
MaxConnects == 1

SessionIds == 1..MaxSessions
IceIds == 1..MaxIceSessions
NoId == 0

VARIABLES
  offerPc,     \* [SessionIds -> position of the POST /api/offer in flight]
  offerResp,   \* [SessionIds -> "none" | "answer" | "error"]: response of the last offer
  build,       \* [SessionIds -> "none" | "building" | "built" | "failed"]: create_pipeline
  pipeline,    \* [SessionIds -> what create_pipeline returned and wired]
  task,        \* [SessionIds -> "none" | "scheduled" | "running" | "ended"]: _run()
  runRaised,   \* [SessionIds -> BOOLEAN]: runner.run(task) raised inside _run()
  registry,    \* the handler's map of live sessions (set of ids)
  conn,        \* [SessionIds -> "none" | "open" | "closed" | "close_failed"]
  descSet,     \* [SessionIds -> BOOLEAN]: remote description set on the connection
  buffered,    \* [SessionIds -> Seq(candidate)]: candidates waiting for the description
  applied,     \* [SessionIds -> Seq(candidate)]: candidates applied to the connection
  delivered,   \* [SessionIds -> Seq(candidate)]: history, candidates in the order they
               \*   arrived for a registered session (request order, then body order)
  raceSent,    \* [SessionIds -> set of candidates PATCHed while that id's offer was in flight]
  flushCount,  \* [SessionIds -> number of buffered candidates flushed to the connection]
  nextCand,    \* the next unused candidate number
  lastPatch,   \* the last PATCH /api/offer: its id, whether it resolved, whether
               \*   handle_patch_request was called for it, its response
  down,        \* the shutdown hook has run
  builds,      \* [SessionIds -> number of pipelines create_pipeline returned for the id]
  lastBad,     \* the last request whose body did not parse or validate, and its status
  q,           \* SpecFrames: [0..6 -> Seq(frame)], q[i] is the input queue of stage i+1
  sttLog,      \* SpecFrames: what process_frame did with each frame it was given
  out,         \* SpecFrames: frames transport-output sent to the peer
  injected,    \* SpecFrames: number of frames put into the pipeline so far
  greetLog     \* SpecFrames: one entry per client-connected event, what its handler did

sigVars == <<offerPc, offerResp, build, pipeline, task, runRaised, registry, conn,
             descSet, buffered, applied, delivered, raceSent, flushCount, nextCand,
             lastPatch, down, builds>>
frameVars == <<q, sttLog, out, injected, greetLog>>
vars == <<offerPc, offerResp, build, pipeline, task, runRaised, registry, conn,
          descSet, buffered, applied, delivered, raceSent, flushCount, nextCand,
          lastPatch, down, builds, lastBad, q, sttLog, out, injected, greetLog>>

Range(s) == {s[i] : i \in 1..Len(s)}

\* ------------------------------------------------------------ create_pipeline
\* The order the module docstring of pipeline.py gives (lines 4-11): synthesis and
\* transport-output ahead of the assistant aggregator.
StageOrder_Docstring ==
  <<"transport_input", "stt", "user_aggregator", "llm",
    "tts", "transport_output", "assistant_aggregator">>

\* pipeline.py:104-114, the list handed to Pipeline([...]).
StageOrder ==
  <<"transport_input", "stt", "user_aggregator", "llm",
    "assistant_aggregator", "tts", "transport_output">>

\* The recognition stage built with audio passthrough left on.
AudioPassthrough_On == TRUE

\* pipeline.py:84, audio_passthrough=False.
AudioPassthrough == FALSE

\* pipeline.py:120, allow_interruptions=True.
AllowInterruptions == TRUE

NoPipeline ==
  [stages |-> <<>>, passthrough |-> FALSE, context |-> <<>>, interruptions |-> FALSE,
   task |-> FALSE, greeter |-> FALSE, runner |-> FALSE]

\* pipeline.py:56-140. create_pipeline has no suspension point: it either returns
\* (runner, task) with everything wired, or one of its constructors raises and
\* nothing it made survives.
CreatePipeline(ok) ==
  IF ok
  THEN [stages |-> StageOrder,
        passthrough |-> AudioPassthrough,
        context |-> <<"system">>,
        interruptions |-> AllowInterruptions,
        task |-> TRUE,
        greeter |-> TRUE,
        runner |-> TRUE]
  ELSE NoPipeline

\* ------------------------------------------------------------------- Init
Init ==
  /\ offerPc = [s \in SessionIds |-> "idle"]
  /\ offerResp = [s \in SessionIds |-> "none"]
  /\ build = [s \in SessionIds |-> "none"]
  /\ pipeline = [s \in SessionIds |-> NoPipeline]
  /\ task = [s \in SessionIds |-> "none"]
  /\ runRaised = [s \in SessionIds |-> FALSE]
  /\ registry = {}
  /\ conn = [s \in SessionIds |-> "none"]
  /\ descSet = [s \in SessionIds |-> FALSE]
  /\ buffered = [s \in SessionIds |-> <<>>]
  /\ applied = [s \in SessionIds |-> <<>>]
  /\ delivered = [s \in SessionIds |-> <<>>]
  /\ raceSent = [s \in SessionIds |-> {}]
  /\ flushCount = [s \in SessionIds |-> 0]
  /\ nextCand = 1
  /\ lastPatch = [id |-> NoId, known |-> FALSE, called |-> FALSE, resp |-> "none", n |-> 0]
  /\ down = FALSE
  /\ builds = [s \in SessionIds |-> 0]
  /\ lastBad = [route |-> "none", fault |-> "none", status |-> 0, reached |-> FALSE]
  /\ q = [i \in 0..6 |-> <<>>]
  /\ sttLog = <<>>
  /\ out = <<>>
  /\ injected = 0
  /\ greetLog = <<>>

\* ------------------------------------------------ the signaling handler
\* Setting the remote description flushes the buffered candidates, in order, in
\* the same step (design 4.1, AddCandidates).
HandlerSetDescription(s) ==
  /\ descSet' = [descSet EXCEPT ![s] = TRUE]
  /\ applied' = [applied EXCEPT ![s] = applied[s] \o buffered[s]]
  /\ buffered' = [buffered EXCEPT ![s] = <<>>]
  /\ flushCount' = [flushCount EXCEPT ![s] = flushCount[s] + Len(buffered[s])]

\* ------------------------------------------------------- POST /api/offer
\* webrtc_offer building the request without the body's pc_id: the handler takes
\* every offer for a new session and runs the callback again.
OfferStart_DropId(s, restart) ==
  /\ ~down
  /\ offerPc[s] = "idle"
  /\ conn[s] # "closed"
  /\ offerResp' = [offerResp EXCEPT ![s] = "none"]
  /\ offerPc' = [offerPc EXCEPT ![s] = "init"]
  /\ conn' = [conn EXCEPT ![s] = "open"]
  /\ descSet' = [descSet EXCEPT ![s] = FALSE]
  /\ buffered' = [buffered EXCEPT ![s] = <<>>]
  /\ build' = [build EXCEPT ![s] = "none"]
  /\ pipeline' = [pipeline EXCEPT ![s] = NoPipeline]
  /\ UNCHANGED <<flushCount, task, runRaised, registry, applied, delivered, raceSent, nextCand,
                 lastPatch, down, frameVars, builds, lastBad>>

\* api.py:133-151 and the entry of handle_web_request (api.py:182): the body is
\* parsed and the request handed to the handler. A registered id is updated
\* (restart tears the negotiation state down first); any other id gets a new
\* connection. The id of a closed session is not used again.
OfferStart(s, restart) ==
  /\ ~down
  /\ offerPc[s] = "idle"
  /\ conn[s] # "closed"
  /\ offerResp' = [offerResp EXCEPT ![s] = "none"]
  /\ IF s \in registry
     THEN /\ offerPc' = [offerPc EXCEPT ![s] = "reneg"]
          /\ descSet' = IF restart THEN [descSet EXCEPT ![s] = FALSE] ELSE descSet
          /\ UNCHANGED <<conn, build, pipeline, buffered>>
     ELSE /\ offerPc' = [offerPc EXCEPT ![s] = "init"]
          /\ conn' = [conn EXCEPT ![s] = "open"]
          /\ descSet' = [descSet EXCEPT ![s] = FALSE]
          /\ buffered' = [buffered EXCEPT ![s] = <<>>]
          /\ build' = [build EXCEPT ![s] = "none"]
          /\ pipeline' = [pipeline EXCEPT ![s] = NoPipeline]
  /\ UNCHANGED <<flushCount, task, runRaised, registry, applied, delivered, raceSent, nextCand,
                 lastPatch, down, frameVars, builds, lastBad>>

\* The new connection is initialized with the offer: its remote description is set.
HandlerInitialize(s) ==
  /\ offerPc[s] = "init"
  /\ offerPc' = [offerPc EXCEPT ![s] = "callback"]
  /\ HandlerSetDescription(s)
  /\ UNCHANGED <<offerResp, build, pipeline, task, runRaised, registry, conn, delivered,
                 raceSent, nextCand, lastPatch, down, frameVars, builds, lastBad>>

\* The update of a registered session: the new description is applied.
HandlerRenegotiated(s) ==
  /\ offerPc[s] = "reneg"
  /\ offerPc' = [offerPc EXCEPT ![s] = "negotiated"]
  /\ HandlerSetDescription(s)
  /\ UNCHANGED <<offerResp, build, pipeline, task, runRaised, registry, conn, delivered,
                 raceSent, nextCand, lastPatch, down, frameVars, builds, lastBad>>

\* api.py:153-161: the handler calls on_connection, which calls create_pipeline.
OnConnectionEnter(s) ==
  /\ offerPc[s] = "callback"
  /\ offerPc' = [offerPc EXCEPT ![s] = "cb_building"]
  /\ build' = [build EXCEPT ![s] = "building"]
  /\ UNCHANGED <<flushCount, offerResp, pipeline, task, runRaised, registry, conn, descSet, buffered,
                 applied, delivered, raceSent, nextCand, lastPatch, down, frameVars, builds, lastBad>>

\* pipeline.py:56-140: create_pipeline returns or raises.
CreatePipelineStep(s) ==
  /\ build[s] = "building"
  /\ \E ok \in BOOLEAN :
       /\ pipeline' = [pipeline EXCEPT ![s] = CreatePipeline(ok)]
       /\ build' = [build EXCEPT ![s] = IF ok THEN "built" ELSE "failed"]
       /\ builds' = [builds EXCEPT ![s] = IF ok THEN builds[s] + 1 ELSE builds[s]]
  /\ UNCHANGED <<flushCount, offerPc, offerResp, task, runRaised, registry, conn, descSet, buffered,
                 applied, delivered, raceSent, nextCand, lastPatch, down, frameVars, lastBad>>

\* on_connection returning at once, create_pipeline left running behind it.
OnConnectionResume_NotAwaited(s) ==
  /\ offerPc[s] = "cb_building"
  /\ offerPc' = [offerPc EXCEPT ![s] = "cb_returned"]
  /\ UNCHANGED <<flushCount, offerResp, build, pipeline, task, runRaised, registry, conn, descSet,
                 buffered, applied, delivered, raceSent, nextCand, lastPatch, down,
                 frameVars, builds, lastBad>>

\* on_connection logging create_pipeline's exception without raising it again.
OnConnectionResume_Swallow(s) ==
  /\ offerPc[s] = "cb_building"
  /\ build[s] # "building"
  /\ IF build[s] = "built"
     THEN /\ task' = [task EXCEPT ![s] = "scheduled"]
          /\ offerPc' = [offerPc EXCEPT ![s] = "cb_spawned"]
     ELSE /\ offerPc' = [offerPc EXCEPT ![s] = "cb_returned"]
          /\ UNCHANGED task
  /\ UNCHANGED <<flushCount, offerResp, build, pipeline, runRaised, registry, conn, descSet, buffered,
                 applied, delivered, raceSent, nextCand, lastPatch, down, frameVars, builds, lastBad>>

\* api.py:160-179: on_connection awaits create_pipeline; on its return it defines
\* _run and hands it to asyncio.create_task; on its exception it logs and raises
\* the exception again.
OnConnectionResume(s) ==
  /\ offerPc[s] = "cb_building"
  /\ build[s] # "building"
  /\ IF build[s] = "built"
     THEN /\ task' = [task EXCEPT ![s] = "scheduled"]
          /\ offerPc' = [offerPc EXCEPT ![s] = "cb_spawned"]
     ELSE /\ offerPc' = [offerPc EXCEPT ![s] = "cb_raised"]
          /\ UNCHANGED task
  /\ UNCHANGED <<flushCount, offerResp, build, pipeline, runRaised, registry, conn, descSet, buffered,
                 applied, delivered, raceSent, nextCand, lastPatch, down, frameVars, builds, lastBad>>

\* on_connection awaiting _run() itself instead of creating a task for it.
OnConnectionReturn_AwaitRun(s) ==
  /\ offerPc[s] = "cb_spawned"
  /\ task[s] = "ended"
  /\ offerPc' = [offerPc EXCEPT ![s] = "cb_returned"]
  /\ UNCHANGED <<flushCount, offerResp, build, pipeline, task, runRaised, registry, conn, descSet,
                 buffered, applied, delivered, raceSent, nextCand, lastPatch, down,
                 frameVars, builds, lastBad>>

\* api.py:175-176: after asyncio.create_task(_run()) the callback logs and returns;
\* it does not wait for the task.
OnConnectionReturn(s) ==
  /\ offerPc[s] = "cb_spawned"
  /\ offerPc' = [offerPc EXCEPT ![s] = "cb_returned"]
  /\ UNCHANGED <<flushCount, offerResp, build, pipeline, task, runRaised, registry, conn, descSet,
                 buffered, applied, delivered, raceSent, nextCand, lastPatch, down,
                 frameVars, builds, lastBad>>

\* The handler registers the session once it is wired (or renegotiated).
HandlerRegister(s) ==
  /\ offerPc[s] \in {"cb_returned", "negotiated"}
  /\ offerPc' = [offerPc EXCEPT ![s] = "registered"]
  /\ registry' = registry \cup {s}
  /\ UNCHANGED <<flushCount, offerResp, build, pipeline, task, runRaised, conn, descSet, buffered,
                 applied, delivered, raceSent, nextCand, lastPatch, down, frameVars, builds, lastBad>>

\* The callback's exception fails handle_web_request: the connection it made is
\* dropped and nothing is registered (design 4.1, 4.2, 7).
HandlerPropagate(s) ==
  /\ offerPc[s] = "cb_raised"
  /\ offerPc' = [offerPc EXCEPT ![s] = "raised"]
  /\ conn' = [conn EXCEPT ![s] = "none"]
  /\ descSet' = [descSet EXCEPT ![s] = FALSE]
  /\ UNCHANGED <<flushCount, offerResp, build, pipeline, task, runRaised, registry, buffered, applied,
                 delivered, raceSent, nextCand, lastPatch, down, frameVars, builds, lastBad>>

\* api.py:182-193: handle_web_request returned; the answer is sent.
OfferReturn(s) ==
  /\ offerPc[s] = "registered"
  /\ offerPc' = [offerPc EXCEPT ![s] = "idle"]
  /\ offerResp' = [offerResp EXCEPT ![s] = "answer"]
  /\ UNCHANGED <<flushCount, build, pipeline, task, runRaised, registry, conn, descSet, buffered,
                 applied, delivered, raceSent, nextCand, lastPatch, down, frameVars, builds, lastBad>>

\* api.py:182: webrtc_offer does not catch what handle_web_request raises; the
\* request ends with an error response.
OfferFail(s) ==
  /\ offerPc[s] = "raised"
  /\ offerPc' = [offerPc EXCEPT ![s] = "idle"]
  /\ offerResp' = [offerResp EXCEPT ![s] = "error"]
  /\ UNCHANGED <<flushCount, build, pipeline, task, runRaised, registry, conn, descSet, buffered,
                 applied, delivered, raceSent, nextCand, lastPatch, down, frameVars, builds, lastBad>>

\* ------------------------------------------------ the background task _run
\* api.py:164-167: the event loop starts the task; it awaits runner.run(task).
TaskStart(s) ==
  /\ task[s] = "scheduled"
  /\ task' = [task EXCEPT ![s] = "running"]
  /\ UNCHANGED <<flushCount, offerPc, offerResp, build, pipeline, runRaised, registry, conn, descSet,
                 buffered, applied, delivered, raceSent, nextCand, lastPatch, down,
                 frameVars, builds, lastBad>>

\* _run written as a retry loop: a run that raised is started again.
TaskEnd_Restart(s) ==
  /\ task[s] = "running"
  /\ \E raised \in BOOLEAN :
       /\ task' = [task EXCEPT ![s] = IF raised THEN "scheduled" ELSE "ended"]
       /\ runRaised' = [runRaised EXCEPT ![s] = raised]
  /\ UNCHANGED <<flushCount, offerPc, offerResp, build, pipeline, registry, conn, descSet, buffered,
                 applied, delivered, raceSent, nextCand, lastPatch, down, frameVars, builds, lastBad>>

\* api.py:167-173: runner.run(task) returns or raises; the exception is logged and
\* the task ends either way. Nothing makes the run end.
TaskEnd(s) ==
  /\ task[s] = "running"
  /\ \E raised \in BOOLEAN :
       /\ task' = [task EXCEPT ![s] = "ended"]
       /\ runRaised' = [runRaised EXCEPT ![s] = raised]
  /\ UNCHANGED <<flushCount, offerPc, offerResp, build, pipeline, registry, conn, descSet, buffered,
                 applied, delivered, raceSent, nextCand, lastPatch, down, frameVars, builds, lastBad>>

\* While the pipeline runs, the aggregators append the turns of the conversation
\* to the context create_pipeline made (design 2, 3: Conversation Context).
ContextAppend(s) ==
  /\ task[s] = "running"
  /\ Len(pipeline[s].context) < 1 + MaxContext
  /\ pipeline' = [pipeline EXCEPT ![s].context = Append(pipeline[s].context, "turn")]
  /\ UNCHANGED <<flushCount, offerPc, offerResp, build, task, runRaised, registry, conn, descSet,
                 buffered, applied, delivered, raceSent, nextCand, lastPatch, down,
                 frameVars, builds, lastBad>>

\* ------------------------------------------------------ PATCH /api/offer
\* A candidates list written in the opposite order.
Candidates_Reversed(body) == [j \in 1..Len(body) |-> body[Len(body) + 1 - j]]

\* api.py:222-229: one IceCandidate per entry of body.candidates, in the order
\* of the list.
Candidates(body) == [j \in 1..Len(body) |-> body[j]]

\* A candidate for a registered session is applied when the remote description
\* is set and queued behind the earlier ones when it is not (design 3, 4.1).
HandlerAddCandidates(s, cs) ==
  /\ applied' = [applied EXCEPT ![s] = IF descSet[s] THEN applied[s] \o cs ELSE applied[s]]
  /\ buffered' = [buffered EXCEPT ![s] = IF descSet[s] THEN buffered[s] ELSE buffered[s] \o cs]

\* webrtc_ice_candidates without the test of api.py:212: a body without pc_id is
\* handed to handle_patch_request like any other.
Patch_NoIdCheck(id, n, raised) ==
  /\ ~down
  /\ nextCand + n - 1 <= MaxCands
  /\ LET body == [j \in 1..n |-> nextCand + j - 1]
         inRace == id # NoId /\ offerPc[id] # "idle"
     IN  /\ nextCand' = nextCand + n
         /\ raceSent' = IF inRace
                        THEN [raceSent EXCEPT ![id] = raceSent[id] \cup Range(body)]
                        ELSE raceSent
         /\ IF id \in registry
            THEN /\ HandlerAddCandidates(id, Candidates(body))
                 /\ delivered' = [delivered EXCEPT ![id] = delivered[id] \o body]
                 /\ lastPatch' = [id |-> id, known |-> TRUE, called |-> TRUE,
                                  resp |-> "ok", n |-> n]
            ELSE /\ lastPatch' = [id |-> id, known |-> FALSE, called |-> TRUE,
                                  resp |-> IF raised THEN "error" ELSE "ok", n |-> n]
                 /\ UNCHANGED <<applied, buffered, delivered>>
  /\ UNCHANGED <<flushCount, offerPc, offerResp, build, pipeline, task, runRaised, registry, conn,
                 descSet, down, frameVars, builds, lastBad>>

\* api.py:196-233. id = NoId is a body without pc_id (absent, null or empty).
\* The n candidates of the body are new ones, numbered in body order. For an id the
\* handler does not know, handle_patch_request either returns without doing
\* anything or raises (design 4.1, UnknownSessionError); api.py:232-233 does
\* not look at which.
Patch(id, n, raised) ==
  /\ ~down
  /\ nextCand + n - 1 <= MaxCands
  /\ LET body == [j \in 1..n |-> nextCand + j - 1]
         inRace == id # NoId /\ offerPc[id] # "idle"
     IN  /\ nextCand' = nextCand + n
         /\ IF id = NoId
            THEN /\ lastPatch' = [id |-> id, known |-> FALSE, called |-> FALSE,
                                  resp |-> "ignored", n |-> n]
                 /\ UNCHANGED <<applied, buffered, delivered, raceSent>>
            ELSE /\ raceSent' = IF inRace
                                THEN [raceSent EXCEPT ![id] = raceSent[id] \cup Range(body)]
                                ELSE raceSent
                 /\ IF id \in registry
                    THEN /\ HandlerAddCandidates(id, Candidates(body))
                         /\ delivered' = [delivered EXCEPT ![id] = delivered[id] \o body]
                         /\ lastPatch' = [id |-> id, known |-> TRUE, called |-> TRUE,
                                          resp |-> "ok", n |-> n]
                    ELSE /\ lastPatch' = [id |-> id, known |-> FALSE, called |-> TRUE,
                                          resp |-> IF raised THEN "error" ELSE "ok", n |-> n]
                         /\ UNCHANGED <<applied, buffered, delivered>>
  /\ UNCHANGED <<flushCount, offerPc, offerResp, build, pipeline, task, runRaised, registry, conn,
                 descSet, down, frameVars, builds, lastBad>>

\* --------------------------------------------------------------- shutdown
\* The handler's close (design 4.1, CloseAll): every registered connection is
\* closed, each on its own; the close of the ids in failed fails, which keeps no
\* other connection from being closed, and the map is emptied.
HandlerClose(failed) ==
  /\ conn' = [s \in SessionIds |->
               IF s \notin registry THEN conn[s]
               ELSE IF s \in failed THEN "close_failed" ELSE "closed"]
  /\ registry' = {}

\* A shutdown hook that does not close the handler.
Shutdown_NoClose ==
  /\ ~down
  /\ \A s \in SessionIds : offerPc[s] = "idle"
  /\ down' = TRUE
  /\ UNCHANGED <<conn, registry>>
  /\ UNCHANGED <<flushCount, offerPc, offerResp, build, pipeline, task, runRaised, descSet, buffered,
                 applied, delivered, raceSent, nextCand, lastPatch, frameVars, builds, lastBad>>

\* api.py:236-240: the shutdown hook awaits the handler's close. The hook runs
\* once the server has stopped serving: no request is in flight and none starts
\* afterwards.
Shutdown ==
  /\ ~down
  /\ \A s \in SessionIds : offerPc[s] = "idle"
  /\ down' = TRUE
  /\ \E failed \in SUBSET registry : HandlerClose(failed)
  /\ UNCHANGED <<flushCount, offerPc, offerResp, build, pipeline, task, runRaised, descSet, buffered,
                 applied, delivered, raceSent, nextCand, lastPatch, frameVars, builds, lastBad>>

\* The steps of the offer request for id s, create_pipeline included.
OfferProgress(s) ==
  \/ HandlerInitialize(s)
  \/ HandlerRenegotiated(s)
  \/ OnConnectionEnter(s)
  \/ CreatePipelineStep(s)
  \/ OnConnectionResume(s)
  \/ OnConnectionReturn(s)
  \/ HandlerRegister(s)
  \/ HandlerPropagate(s)
  \/ OfferReturn(s)
  \/ OfferFail(s)

Next ==
  \/ \E s \in SessionIds, restart \in BOOLEAN : OfferStart(s, restart)
  \/ \E s \in SessionIds : HandlerInitialize(s)
  \/ \E s \in SessionIds : HandlerRenegotiated(s)
  \/ \E s \in SessionIds : OnConnectionEnter(s)
  \/ \E s \in SessionIds : CreatePipelineStep(s)
  \/ \E s \in SessionIds : OnConnectionResume(s)
  \/ \E s \in SessionIds : OnConnectionReturn(s)
  \/ \E s \in SessionIds : HandlerRegister(s)
  \/ \E s \in SessionIds : HandlerPropagate(s)
  \/ \E s \in SessionIds : OfferReturn(s)
  \/ \E s \in SessionIds : OfferFail(s)
  \/ \E s \in SessionIds : TaskStart(s)
  \/ \E s \in SessionIds : TaskEnd(s)
  \/ \E s \in SessionIds : ContextAppend(s)
  \/ Shutdown

\* Offers, the background tasks and the shutdown hook, for every session id.
Spec == Init /\ [][Next]_vars

\* Offers and trickled candidates: the offers are for the ids of IceIds, a PATCH
\* may name any id or none. The background task and the shutdown hook take no part
\* in the exchange of candidates and are left out.
NextIce ==
  \/ \E s \in IceIds, restart \in BOOLEAN : OfferStart(s, restart)
  \/ \E s \in IceIds : HandlerInitialize(s)
  \/ \E s \in IceIds : HandlerRenegotiated(s)
  \/ \E s \in IceIds : OnConnectionEnter(s)
  \/ \E s \in IceIds : CreatePipelineStep(s)
  \/ \E s \in IceIds : OnConnectionResume(s)
  \/ \E s \in IceIds : OnConnectionReturn(s)
  \/ \E s \in IceIds : HandlerRegister(s)
  \/ \E s \in IceIds : HandlerPropagate(s)
  \/ \E s \in IceIds : OfferReturn(s)
  \/ \E s \in IceIds : OfferFail(s)
  \/ \E id \in {NoId} \cup SessionIds, n \in 0..MaxBatch, raised \in BOOLEAN :
       Patch(id, n, raised)

SpecIce == Init /\ [][NextIce]_vars

\* ------------------------------------------------ bodies that do not parse
\* The ways a body can be malformed: not JSON at all, a JSON object without a
\* required field (sdp, type, candidates), a field of the wrong type.
Faults == {"not_json", "missing_field", "ill_typed"}

\* api.py:133-142 and 202-210: what the route raises for such a body. Both
\* request.json() and the json.loads it falls back on fail on a body that is not
\* JSON; OfferRequest(**data) and PatchRequest(**data) are built by hand inside
\* the route, so a missing or ill-typed field raises pydantic's ValidationError.
BodyException(fault) ==
  IF fault = "not_json" THEN "JSONDecodeError" ELSE "ValidationError"

\* api.py:59-78: the application's one exception handler is registered for
\* RequestValidationError and answers 422 with the sanitized errors and the body.
\* An exception of any other class leaves the route unhandled and the server
\* answers 500.
ExceptionStatus(exc) ==
  IF exc = "RequestValidationError" THEN 422 ELSE 500

\* POST or PATCH /api/offer with a malformed body: the route raises at its parse
\* or validation step, before the handler is called (api.py:182, 232).
MalformedRequest(route, fault) ==
  /\ ~down
  /\ lastBad' = [route |-> route, fault |-> fault,
                 status |-> ExceptionStatus(BodyException(fault)), reached |-> FALSE]
  /\ UNCHANGED <<sigVars, frameVars>>

NextHttp ==
  \/ NextIce
  \/ \E route \in {"POST", "PATCH"}, fault \in Faults : MalformedRequest(route, fault)

\* Offers, candidates and requests whose body is malformed.
SpecHttp == Init /\ [][NextHttp]_vars

\* ------------------------------------------------------- the wired pipeline
\* pipeline.py:18 and 46: the frame classes process_frame tests for.
AudioKinds == {"InputAudioRawFrame", "AudioRawFrame"}

\* Frames the peer's media and the transport put in at the head of the pipeline:
\* audio, and any other frame (a control or system frame).
InboundKinds == AudioKinds \cup {"ControlFrame"}

\* The id the greeting frame carries; the frames that come in after the client
\* connected are numbered from 1.
GreetingId == 0

\* pipeline.py:132, TTSSpeakFrame(text=GREETING).
GreetingFrame == [kind |-> "TTSSpeakFrame", id |-> GreetingId]

IsAudio(f) == f.kind \in AudioKinds

\* DeepgramSTTService.process_frame, the method the subclass falls back on:
\* audio is recognised and pushed on only with passthrough; any other frame is
\* pushed on.
SttBaseProcessFrame(f, passthrough) ==
  IF IsAudio(f)
  THEN [path |-> "super", recognised |-> TRUE,
        pushed |-> IF passthrough THEN <<f>> ELSE <<>>]
  ELSE [path |-> "super", recognised |-> FALSE, pushed |-> <<f>>]

\* pipeline.py:44-53, SecureDeepgramSTTService.process_frame: what is done with
\* frame f, and the frames pushed downstream for it.
ProcessFrame(f, passthrough) ==
  IF IsAudio(f) /\ ~passthrough
  THEN [path |-> "audio", recognised |-> TRUE, pushed |-> <<>>]
  ELSE SttBaseProcessFrame(f, passthrough)

\* What a stage other than the recognition stage pushes downstream for frame f
\* (design 2, 4.2): a transcript becomes a context frame, the context a generated
\* text, a text or a greeting synthesized audio; anything else goes on unchanged.
StagePushes(name, f) ==
  CASE name = "user_aggregator" /\ f.kind = "TranscriptionFrame"
         -> <<[kind |-> "LLMContextFrame", id |-> f.id]>>
    [] name = "llm" /\ f.kind = "LLMContextFrame"
         -> <<[kind |-> "LLMTextFrame", id |-> f.id]>>
    [] name = "tts" /\ f.kind \in {"LLMTextFrame", "TTSSpeakFrame"}
         -> <<[kind |-> "TTSAudioRawFrame", id |-> f.id]>>
    [] OTHER -> <<f>>

\* on_client_connected raising again what queue_frames raised.
OnClientConnected_Reraise(ok) ==
  [queued |-> IF ok THEN <<GreetingFrame>> ELSE <<>>, raised |-> ~ok]

\* pipeline.py:127-135, on_client_connected: one call of task.queue_frames with
\* the one greeting frame; if the call raises, the exception is logged and the
\* handler returns normally.
OnClientConnected(ok) ==
  [queued |-> IF ok THEN <<GreetingFrame>> ELSE <<>>, raised |-> FALSE]

\* The transport reports that the client connected and runs the handler;
\* queue_frames succeeds or raises. What it queued is at the head of the pipeline.
ClientConnected(ok) ==
  /\ Len(greetLog) < MaxConnects
  /\ LET r == OnClientConnected(ok)
     IN  /\ q' = [q EXCEPT ![0] = q[0] \o r.queued]
         /\ greetLog' = Append(greetLog, [ok |-> ok, queued |-> Len(r.queued),
                                          raised |-> r.raised])
  /\ UNCHANGED <<sttLog, out, injected, sigVars, lastBad>>

\* A frame arrives at the head of the pipeline; the peer's media flows once the
\* client has connected.
Inject(kind) ==
  /\ greetLog # <<>>
  /\ injected < MaxFrames
  /\ injected' = injected + 1
  /\ q' = [q EXCEPT ![0] = Append(q[0], [kind |-> kind, id |-> injected + 1])]
  /\ UNCHANGED <<sttLog, out, greetLog, sigVars, lastBad>>

\* Stage i of pipeline.py:104-114 takes the next frame of its queue. The
\* recognition stage runs process_frame on it, with the passthrough setting of
\* pipeline.py:84; recognition of an audio frame may complete a transcript, which
\* the stage pushes. The last stage sends audio to the peer.
StageStep(i, final) ==
  /\ q[i - 1] # <<>>
  /\ LET f == Head(q[i - 1])
         name == StageOrder[i]
         r == ProcessFrame(f, AudioPassthrough)
     IN  IF name = "stt"
         THEN /\ sttLog' = Append(sttLog, [frame |-> f, path |-> r.path,
                                           recognised |-> r.recognised,
                                           pushed |-> r.pushed # <<>>])
              /\ q' = [q EXCEPT ![i - 1] = Tail(q[i - 1]),
                                ![i] = q[i] \o r.pushed \o
                                       (IF r.recognised /\ final
                                        THEN <<[kind |-> "TranscriptionFrame", id |-> f.id]>>
                                        ELSE <<>>)]
              /\ UNCHANGED out
         ELSE IF name = "transport_output"
         THEN /\ out' = IF f.kind \in AudioKinds \cup {"TTSAudioRawFrame"}
                        THEN Append(out, f) ELSE out
              /\ q' = [q EXCEPT ![i - 1] = Tail(q[i - 1])]
              /\ UNCHANGED sttLog
         ELSE /\ q' = [q EXCEPT ![i - 1] = Tail(q[i - 1]),
                                ![i] = q[i] \o StagePushes(name, f)]
              /\ UNCHANGED <<sttLog, out>>
  /\ UNCHANGED <<injected, greetLog, sigVars, lastBad>>

NextFrames ==
  \/ \E ok \in BOOLEAN : ClientConnected(ok)
  \/ \E kind \in InboundKinds : Inject(kind)
  \/ \E i \in 1..Len(StageOrder), final \in BOOLEAN : StageStep(i, final)

SpecFrames == Init /\ [][NextFrames]_vars

\* ------------------------------------------------------------------ claims
\* The pipeline of session s is fully constructed: create_pipeline returned, all
\* seven stages are wired, and the task and the runner exist.
PipelineReady(s) ==
  /\ build[s] = "built"
  /\ Len(pipeline[s].stages) = 7
  /\ pipeline[s].task
  /\ pipeline[s].runner

\* C1: in every reachable state where the answer of an offer has been returned,
\* the session-ready callback has run to completion and the session's pipeline
\* is fully constructed (seven stages wired, task and runner created).
C1_AnswerOnlyAfterPipelineReady ==
  \A s \in SessionIds :
    (offerResp[s] = "answer" \/ offerPc[s] = "registered") =>
      /\ PipelineReady(s)
      /\ task[s] # "none"

\* C1 witness: a new session's offer has been answered and its pipeline is built.
C1_Witness ==
  \E s \in SessionIds :
    offerResp[s] = "answer" /\ offerPc[s] = "idle" /\ PipelineReady(s)

\* C2: when create_pipeline fails during an offer, the failure leaves the callback
\* and fails the request: no answer is returned, no background task is created,
\* no session is registered for the offer, and the request ends in an error.
C2_BuildFailureFailsOffer ==
  \A s \in SessionIds :
    build[s] = "failed" =>
      /\ offerPc[s] \in {"cb_building", "cb_raised", "raised", "idle"}
      /\ task[s] = "none"
      /\ s \notin registry
      /\ offerResp[s] # "answer"
      /\ offerPc[s] = "idle" => (offerResp[s] = "error" /\ conn[s] = "none")

\* C2 witness: an offer whose pipeline construction failed has ended in an error.
C2_Witness ==
  \E s \in SessionIds :
    build[s] = "failed" /\ offerPc[s] = "idle" /\ offerResp[s] = "error"

\* C3: the offer request never waits for the pipeline run: whatever the state of
\* any session's background task (scheduled, running for ever, ended), an offer in
\* flight can take its next step, so it reaches its answer while runs go on.
C3_RunNeverBlocksOffer ==
  \A s \in SessionIds : offerPc[s] # "idle" => ENABLED OfferProgress(s)

\* C3 witness: an answer has been returned while that session's run is still
\* running, and another session's offer is in flight at the same time.
C3_Witness ==
  \E s, u \in SessionIds :
    /\ s # u
    /\ offerResp[s] = "answer"
    /\ task[s] = "running"
    /\ offerPc[u] = "cb_spawned"

NoRepeat(seq) == \A i, j \in 1..Len(seq) : seq[i] = seq[j] => i = j

\* C4: no candidate PATCHed for a session id while that id's offer is in flight
\* (before its answer is returned) is lost: each is applied to the connection or
\* waits in its buffer.
C4_NoRacingCandidateLost ==
  \A s \in SessionIds :
    raceSent[s] \subseteq (Range(applied[s]) \cup Range(buffered[s]))

\* C5: the candidates delivered to a known session reach its connection exactly
\* once and in arrival order (request after request, each body in list order);
\* those that arrive before the remote description is set wait in the buffer and
\* are all applied, in that order, in the step that sets the description.
C5_CandidatesInArrivalOrder ==
  \A s \in SessionIds :
    /\ applied[s] \o buffered[s] = delivered[s]
    /\ descSet[s] => buffered[s] = <<>>
    /\ NoRepeat(applied[s])
    /\ flushCount[s] <= Len(applied[s])

\* C5 witness: two or more candidates were buffered for a session and have been
\* flushed to its connection by the setting of the description.
C5_Witness ==
  \E s \in SessionIds :
    /\ flushCount[s] >= 2
    /\ descSet[s]
    /\ Len(applied[s]) >= 2
    /\ applied[s] = delivered[s]

\* C6: a PATCH whose session id does not resolve to a registered session is
\* answered {"status": "ignored"}, with no error.
C6_UnknownIdIgnored ==
  (lastPatch.id # NoId /\ ~lastPatch.known) => lastPatch.resp = "ignored"

\* C9: with passthrough disabled, every inbound audio frame given to the
\* recognition stage is recognised and not pushed downstream, so none is in a
\* queue behind that stage or sent by transport-output; every other frame goes
\* through the stage's normal path and is pushed on.
C9_InboundAudioNeverRetransmitted ==
  /\ \A i \in 2..6 : \A k \in 1..Len(q[i]) : ~IsAudio(q[i][k])
  /\ \A k \in 1..Len(out) : ~IsAudio(out[k])
  /\ \A k \in 1..Len(sttLog) :
       IF IsAudio(sttLog[k].frame)
       THEN sttLog[k].path = "audio" /\ sttLog[k].recognised /\ ~sttLog[k].pushed
       ELSE sttLog[k].path = "super" /\ sttLog[k].pushed

\* C9 witness: the recognition stage has handled an inbound audio frame and a
\* non-audio frame, and transport-output has sent synthesized audio.
C9_Witness ==
  /\ \E k \in 1..Len(sttLog) : IsAudio(sttLog[k].frame)
  /\ \E k \in 1..Len(sttLog) : ~IsAudio(sttLog[k].frame)
  /\ out # <<>>

\* C11: a single stage error in a session's pipeline run is contained: the
\* pipeline of that session keeps running after it (and the session stays
\* registered while the server is up).
C11_StageErrorContained ==
  \A s \in SessionIds :
    runRaised[s] => task[s] = "running"

\* The context a session held before a step is still the head of its context
\* after the step.
ContextPreserved(s) ==
  /\ Len(pipeline'[s].context) >= Len(pipeline[s].context)
  /\ SubSeq(pipeline'[s].context, 1, Len(pipeline[s].context)) = pipeline[s].context

\* C14: an offer for a registered session, restart or not, rebuilds negotiation
\* state only: no step taken while the session is registered builds a pipeline
\* for it, changes its stages or drops an entry of its context, and every
\* registered session has exactly one pipeline, fully constructed.
C14_RestartKeepsPipeline ==
  /\ [](\A s \in registry : builds[s] = 1 /\ PipelineReady(s))
  /\ [][\A s \in registry :
          /\ builds'[s] = builds[s]
          /\ pipeline'[s].stages = pipeline[s].stages
          /\ ContextPreserved(s)]_vars

\* C14 witness: a restart offer for a registered session has torn its negotiation
\* state down, and the session still has the one pipeline it was given, with the
\* turn its context has gained since.
C14_Witness ==
  \E s \in registry :
    /\ offerPc[s] = "reneg"
    /\ ~descSet[s]
    /\ builds[s] = 1
    /\ Len(pipeline[s].stages) = 7
    /\ Len(pipeline[s].context) > 1

\* C15: the shutdown hook leaves no session registered and no connection open,
\* and in its step every registered session's connection is closed or has failed
\* to close on its own account: a failed close keeps no other from being closed.
C15_ShutdownClosesAll ==
  /\ [](down => (registry = {} /\ \A s \in SessionIds : conn[s] # "open"))
  /\ [][(~down /\ down') =>
          \A s \in registry : conn'[s] \in {"closed", "close_failed"}]_vars

\* C15 witness: the hook has run with two sessions registered; the close of one
\* failed and the other was closed.
C15_Witness ==
  /\ down
  /\ registry = {}
  /\ \E s, u \in SessionIds : conn[s] = "close_failed" /\ conn[u] = "closed"

\* C19: the end of a session's pipeline run, by return or by exception, changes
\* nothing but that session's task: no offer's position or response, no
\* registration, no connection and no other session's task or pipeline. A run
\* that stops has ended, a run that raised has ended, and an ended run is not
\* started again.
C19_RunFailureStaysInTask ==
  /\ [](\A s \in SessionIds : runRaised[s] => task[s] = "ended")
  /\ [][\A s \in SessionIds :
          /\ task[s] = "ended" => task'[s] = "ended"
          /\ (task[s] = "running" /\ task'[s] # "running") =>
               /\ task'[s] = "ended"
               /\ UNCHANGED <<offerPc, offerResp, registry, conn, pipeline, build>>
               /\ \A u \in SessionIds \ {s} :
                    task'[u] = task[u] /\ runRaised'[u] = runRaised[u]]_vars

\* C19 witness: one session's run has raised and its task has ended, while
\* another session's pipeline is running and both sessions are registered and
\* answered.
C19_Witness ==
  \E s, u \in SessionIds :
    /\ s # u
    /\ runRaised[s] /\ task[s] = "ended"
    /\ task[u] = "running"
    /\ {s, u} \subseteq registry
    /\ offerResp[s] = "answer" /\ offerResp[u] = "answer"

\* C13: a POST or PATCH whose body is malformed is answered with status 422,
\* and the handler is not reached: no session is created and no candidate
\* delivered.
C13_MalformedBodyIs422 ==
  lastBad.route # "none" => (lastBad.status = 422 /\ ~lastBad.reached)

\* C18: a PATCH without a session id is answered "ignored" and
\* handle_patch_request is not called for it; its step changes no session,
\* connection or candidate state. A PATCH with an id that the handler accepts is
\* answered "ok".
C18_PatchWithoutIdIgnored ==
  /\ [](lastPatch.resp # "none" =>
          /\ lastPatch.id = NoId => (lastPatch.resp = "ignored" /\ ~lastPatch.called)
          /\ (lastPatch.id # NoId /\ lastPatch.resp # "error") =>
               (lastPatch.resp = "ok" /\ lastPatch.called))
  /\ [][(lastPatch'.id = NoId /\ (lastPatch' # lastPatch \/ nextCand' # nextCand)) =>
          UNCHANGED <<applied, buffered, delivered, raceSent, flushCount, registry,
                      conn, descSet, offerPc, offerResp, build, pipeline, task>>]_vars

\* C18 witness: with a session registered and a candidate applied to it, a PATCH
\* without a session id has carried candidates and been answered "ignored".
C18_Witness ==
  /\ lastPatch.id = NoId
  /\ lastPatch.resp = "ignored"
  /\ lastPatch.n >= 1
  /\ ~lastPatch.called
  /\ \E s \in registry : applied[s] # <<>>

\* Audio that transport-output sent and that was synthesized from what the user
\* said: synthesized audio other than the greeting's.
UserDerivedAudio(f) == f.kind = "TTSAudioRawFrame" /\ f.id # GreetingId

\* C17: every client-connected event queues the greeting frame, and the
\* greeting's synthesized audio is sent before any audio derived from user audio.
C17_GreetingFirst ==
  /\ \A k \in 1..Len(greetLog) : greetLog[k].queued = 1
  /\ \A k \in 1..Len(out) :
       UserDerivedAudio(out[k]) => \E j \in 1..(k - 1) : out[j].id = GreetingId

\* C20: no client-connected event lets an exception out of on_client_connected,
\* whether queue_frames raised or not, and none queues more than one greeting
\* frame; the step of the event leaves the frames already in the pipeline, what
\* was recognised and sent, and every session, connection and task as they were.
C20_GreetingFailureSwallowed ==
  /\ [](\A k \in 1..Len(greetLog) :
          /\ ~greetLog[k].raised
          /\ greetLog[k].queued <= 1
          /\ ~greetLog[k].ok => greetLog[k].queued = 0)
  /\ [][greetLog' # greetLog =>
          /\ UNCHANGED <<sttLog, out, task, registry, conn, pipeline>>
          /\ \A i \in 1..6 : q'[i] = q[i]
          /\ Len(q'[0]) <= Len(q[0]) + 1
          /\ SubSeq(q'[0], 1, Len(q[0])) = q[0]]_vars

\* C20 witness: the greeting of the first client-connected event could not be
\* queued, and the pipeline has since recognised user audio and sent audio
\* synthesized from it.
C20_Witness ==
  /\ greetLog # <<>>
  /\ ~greetLog[1].ok
  /\ greetLog[1].queued = 0
  /\ \E k \in 1..Len(sttLog) : IsAudio(sttLog[k].frame)
  /\ \E k \in 1..Len(out) : UserDerivedAudio(out[k])

====
